---- MODULE Spec2Model ----
(***************************************************************************)
(* Model of the Grokipedia citation analyzer:                              *)
(*   src/citation_verifier.py      (the domain pipeline)                   *)
(*   src/citation_verifier_llm.py  (the semantic pipeline)                 *)
(*                                                                         *)
(* Python strings are sequences of one-character strings, so that          *)
(* str.lower, str.strip, str.split and str.startswith are computed.        *)
(* A URL is the record of the parts urllib.parse works on.                 *)
(* Three specifications share the variables:                               *)
(*   SpecExtract   extract_citation_links over bounded documents           *)
(*   Spec          both pipelines from the extracted citation list on      *)
(*   SpecIdentify  identify_source over bounded classifier outputs         *)
(***************************************************************************)
EXTENDS Integers, Sequences, FiniteSets, TLC

VARIABLES
    pc,               \* position in the program
    pipeline,         \* "domain": citation_verifier.py, "semantic": citation_verifier_llm.py
    document,         \* the parsed article (soup), elements in document order
    sup_i,            \* number of <sup> elements the marker loop has visited
    cit_i,            \* number of citations the current citation loop has visited
    citation_refs,    \* list of link lists (citations in the semantic main)
    used_fallback,    \* history: the fallback branch (llm:61-67) was taken
    llm_available,    \* the transformers import succeeded (pipeline is not None)
    citation_sources, \* dict idx -> domains (domain) / list of sources (semantic)
    groups,           \* domain_to_citations / source_map, an insertion-ordered dict
    source_count,     \* the number printed on the last line of the report
    printed,          \* lines printed so far, by kind
    outcomes,         \* history: what happened to each classified citation
    id_text,          \* identify_source: argument text
    id_result,        \* identify_source: what the llm call returns or raises
    id_key            \* identify_source: returned value

vars == <<pc, pipeline, document, sup_i, cit_i, citation_refs, used_fallback,
          llm_available, citation_sources, groups, source_count, printed,
          outcomes, id_text, id_result, id_key>>

extractVars == <<document, sup_i, used_fallback>>
pipeVars == <<cit_i, llm_available, citation_sources, groups, source_count, printed, outcomes>>
identVars == <<id_text, id_result, id_key>>

(***************************************************************************)
(* Bounds                                                                  *)
(***************************************************************************)
MaxNodes == 3       \* elements of a document
MaxLinks == 2       \* links of one footnote / of one citation
MaxCitations == 2   \* citations handed to a pipeline
MaxAnswer == 2      \* length of a classifier answer inside a pipeline run
MaxOut == 4         \* length of a classifier answer given to identify_source alone

(***************************************************************************)
(* Strings                                                                 *)
(***************************************************************************)
\* the sequences over alphabet of length 0..n
StringsUpTo(alphabet, n) == UNION {[1..m -> alphabet] : m \in 0..n}

Range(s) == {s[i] : i \in DOMAIN s}

Whitespace == {" ", "\n"}

LowerChar(c) ==
    CASE c = "A" -> "a"
      [] c = "N" -> "n"
      [] c = "R" -> "r"
      [] OTHER -> c

\* str.lower()
Lower(s) == [i \in DOMAIN s |-> LowerChar(s[i])]

\* str.strip(): drop leading and trailing whitespace
RECURSIVE LStrip(_)
LStrip(s) == IF s # <<>> /\ Head(s) \in Whitespace THEN LStrip(Tail(s)) ELSE s

RECURSIVE RStrip(_)
RStrip(s) ==
    IF s # <<>> /\ s[Len(s)] \in Whitespace THEN RStrip(SubSeq(s, 1, Len(s) - 1)) ELSE s

Strip(s) == RStrip(LStrip(s))

\* str.split("\n")[0]: everything before the first newline
RECURSIVE FirstLine(_)
FirstLine(s) ==
    IF s = <<>> \/ Head(s) = "\n" THEN <<>> ELSE <<Head(s)>> \o FirstLine(Tail(s))

\* str.startswith(prefix)
StartsWith(s, prefix) ==
    Len(s) >= Len(prefix) /\ SubSeq(s, 1, Len(prefix)) = prefix

NoneWord == <<"n", "o", "n", "e">>

(***************************************************************************)
(* URLs                                                                    *)
(***************************************************************************)
Url(scheme, netloc, path, fragment) ==
    [scheme |-> scheme, netloc |-> netloc, path |-> path, fragment |-> fragment]

Http == <<"h", "t", "t", "p">>
Https == <<"h", "t", "t", "p", "s">>
Httpx == <<"h", "t", "t", "p", "x">>
Mailto == <<"m", "a", "i", "l", "t", "o">>

\* sys.argv[1]; requests.get accepts http(s) only
article_url == Url(Http, <<"g", ".", "c">>, "/page/P", "")

UrlUpperA == Url(Http, <<"A", ".", "c">>, "/x", "")
UrlLowerA == Url(Https, <<"a", ".", "c">>, "/y", "")
UrlB == Url(Http, <<"b", ".", "c">>, "/z", "")
UrlMail == Url(Mailto, <<>>, "a@b.c", "")
UrlHttpx == Url(Httpx, <<"a", ".", "c">>, "/w", "")
HrefRelative == Url(<<>>, <<>>, "/page/Q", "")
HrefNote == Url(<<>>, <<>>, "", "n1")
HrefEmpty == Url(<<>>, <<>>, "", "")

\* The text of a URL up to its scheme separator; a scheme-less href has none.
Prefix(u) == IF u.scheme = <<>> THEN <<>> ELSE u.scheme \o <<":">>

\* urllib.parse.urljoin(base, href)
urljoin(base, href) ==
    IF href.scheme # <<>> THEN href
    ELSE IF href.netloc # <<>> THEN [href EXCEPT !.scheme = base.scheme]
    ELSE IF href.path # "" THEN Url(base.scheme, base.netloc, href.path, href.fragment)
    ELSE IF href.fragment # "" THEN [base EXCEPT !.fragment = href.fragment]
    ELSE base

\* full_url.startswith('http')
StartsWithHttp(u) == StartsWith(Prefix(u), Http)

\* href.startswith('#')
IsFragmentRef(href) ==
    href.scheme = <<>> /\ href.netloc = <<>> /\ href.path = "" /\ href.fragment # ""

\* get_domain(url): urlparse(url).netloc.lower()
get_domain(url) == Lower(url.netloc)

(***************************************************************************)
(* Documents: the elements of the parsed page in document order.           *)
(*   sup  : a <sup>; anchor is the href of its first <a>, HrefEmpty when   *)
(*          it has no <a> or the <a> has no (or an empty) href             *)
(*   note : an element carrying an id, with the hrefs of the <a> in it     *)
(*   a    : a hyperlink outside any of the above                           *)
(***************************************************************************)
SupNode(href) == [tag |-> "sup", anchor |-> href]
NoteNode(id, links) == [tag |-> "note", id |-> id, links |-> links]
LinkNode(href) == [tag |-> "a", anchor |-> href]

SupHrefs == {HrefEmpty, HrefNote, UrlUpperA, UrlMail}
NoteHrefs == {UrlLowerA, HrefRelative, UrlHttpx, UrlMail}
PlainHrefs == {UrlB}

Nodes ==
    {SupNode(h) : h \in SupHrefs}
    \cup {NoteNode("n1", ls) : ls \in StringsUpTo(NoteHrefs, MaxLinks)}
    \cup {LinkNode(h) : h \in PlainHrefs}

Documents == StringsUpTo(Nodes, MaxNodes)

IsSup(n) == n.tag = "sup"

\* soup.find_all('sup')
Sups(doc) == SelectSeq(doc, IsSup)

\* soup.find(id=x): the first element with that id, <<>> (None) when there is none
RECURSIVE FindById(_, _)
FindById(doc, id) ==
    IF doc = <<>> THEN <<>>
    ELSE IF Head(doc).tag = "note" /\ Head(doc).id = id THEN <<Head(doc)>>
    ELSE FindById(Tail(doc), id)

\* [urljoin(article_url, h) for h in hrefs if urljoin(...).startswith('http')]
RECURSIVE HttpLinks(_)
HttpLinks(hrefs) ==
    IF hrefs = <<>> THEN <<>>
    ELSE LET full_url == urljoin(article_url, Head(hrefs))
         IN  (IF StartsWithHttp(full_url) THEN <<full_url>> ELSE <<>>)
             \o HttpLinks(Tail(hrefs))

\* soup.find_all('a', href=True): every <a> carrying an href attribute
RECURSIVE AllHrefs(_)
AllHrefs(doc) ==
    IF doc = <<>> THEN <<>>
    ELSE LET n == Head(doc)
             here == CASE n.tag = "note" -> n.links
                       [] n.anchor = HrefEmpty -> <<>>
                       [] OTHER -> <<n.anchor>>
         IN  here \o AllHrefs(Tail(doc))

\* [[url] for url in links]
Singletons(links) == [i \in DOMAIN links |-> <<links[i]>>]

(***************************************************************************)
(* extract_citation_links (both files; the fallback is the semantic one's) *)
(***************************************************************************)
ScanDone == sup_i = Len(Sups(document))
CurrentSup == Sups(document)[sup_i + 1]

\* `if not a or not a.get('href'): continue`
ScanSkip ==
    /\ pc = "scan" /\ ~ScanDone
    /\ CurrentSup.anchor = HrefEmpty
    /\ sup_i' = sup_i + 1
    /\ UNCHANGED <<pc, pipeline, document, citation_refs, used_fallback, pipeVars, identVars>>

\* `footnote = soup.find(id=href[1:]); if not footnote: continue`
ScanDangling ==
    /\ pc = "scan" /\ ~ScanDone
    /\ CurrentSup.anchor # HrefEmpty
    /\ IsFragmentRef(CurrentSup.anchor)
    /\ FindById(document, CurrentSup.anchor.fragment) = <<>>
    /\ sup_i' = sup_i + 1
    /\ UNCHANGED <<pc, pipeline, document, citation_refs, used_fallback, pipeVars, identVars>>

\* the footnote's http links are gathered and appended as one citation
ScanFootnote ==
    /\ pc = "scan" /\ ~ScanDone
    /\ CurrentSup.anchor # HrefEmpty
    /\ IsFragmentRef(CurrentSup.anchor)
    /\ FindById(document, CurrentSup.anchor.fragment) # <<>>
    /\ LET footnote == FindById(document, CurrentSup.anchor.fragment)[1]
       IN  citation_refs' = Append(citation_refs, HttpLinks(footnote.links))
    /\ sup_i' = sup_i + 1
    /\ UNCHANGED <<pc, pipeline, document, used_fallback, pipeVars, identVars>>

\* `else: citation_refs.append([urljoin(article_url, href)])`
ScanDirect ==
    /\ pc = "scan" /\ ~ScanDone
    /\ CurrentSup.anchor # HrefEmpty
    /\ ~IsFragmentRef(CurrentSup.anchor)
    /\ citation_refs' = Append(citation_refs, <<urljoin(article_url, CurrentSup.anchor)>>)
    /\ sup_i' = sup_i + 1
    /\ UNCHANGED <<pc, pipeline, document, used_fallback, pipeVars, identVars>>

\* `if not citation_refs:` collect every http link of the page (semantic file only)
Fallback ==
    /\ pc = "scan" /\ ScanDone
    /\ pipeline = "semantic"
    /\ citation_refs = <<>>
    /\ citation_refs' = Singletons(HttpLinks(AllHrefs(document)))
    /\ used_fallback' = TRUE
    /\ pc' = "extracted"
    /\ UNCHANGED <<pipeline, document, sup_i, pipeVars, identVars>>

\* `return citation_refs`
ReturnRefs ==
    /\ pc = "scan" /\ ScanDone
    /\ pipeline = "domain" \/ citation_refs # <<>>
    /\ pc' = "extracted"
    /\ UNCHANGED <<pipeline, document, sup_i, citation_refs, used_fallback, pipeVars, identVars>>

InitExtract ==
    /\ pc = "scan"
    /\ pipeline \in {"domain", "semantic"}
    /\ document \in Documents
    /\ sup_i = 0 /\ used_fallback = FALSE /\ citation_refs = <<>>
    /\ cit_i = 0 /\ llm_available = TRUE /\ citation_sources = <<>> /\ groups = <<>>
    /\ source_count = 0 /\ printed = <<>> /\ outcomes = <<>>
    /\ id_text = <<>> /\ id_result = [raised |-> TRUE] /\ id_key = <<>>

NextExtract ==
    \/ ScanSkip
    \/ ScanDangling
    \/ ScanFootnote
    \/ ScanDirect
    \/ Fallback
    \/ ReturnRefs

SpecExtract == InitExtract /\ [][NextExtract]_vars

(***************************************************************************)
(* Insertion-ordered dicts of lists: a sequence of [key, cites] entries.   *)
(***************************************************************************)
Keys(d) == [i \in DOMAIN d |-> d[i].key]

HasKey(d, k) == \E i \in DOMAIN d : d[i].key = k

\* d[k] for a key the dict holds
Lookup(d, k) == d[CHOOSE i \in DOMAIN d : d[i].key = k].cites

\* mutant: `d[k] = [v]`, an assignment where the code appends
DictAppend_overwrite(d, k, v) ==
    IF HasKey(d, k)
    THEN [i \in DOMAIN d |->
            IF d[i].key = k THEN [d[i] EXCEPT !.cites = <<v>>] ELSE d[i]]
    ELSE Append(d, [key |-> k, cites |-> <<v>>])

\* defaultdict(list)[k].append(v)  /  d.setdefault(k, []).append(v)
DictAppend(d, k, v) ==
    IF HasKey(d, k)
    THEN [i \in DOMAIN d |->
            IF d[i].key = k THEN [d[i] EXCEPT !.cites = Append(@, v)] ELSE d[i]]
    ELSE Append(d, [key |-> k, cites |-> <<v>>])

\* `for k in order: d[k].append(v)`
RECURSIVE AppendAll(_, _, _)
AppendAll(d, order, v) ==
    IF order = <<>> THEN d
    ELSE AppendAll(DictAppend(d, Head(order), v), Tail(order), v)

(***************************************************************************)
(* analyze_dependencies and the report (citation_verifier.py)              *)
(***************************************************************************)
\* [get_domain(link) for link in links]
Domains(links) == [i \in DOMAIN links |-> get_domain(links[i])]

\* mutant: `for d in domains`, the list walked without set()
IterationOrders_list(domains) == {domains}

\* `for d in set(domains)`: a set of strings is walked in an order that the
\* hash seed decides, each distinct element once
IterationOrders(domains) ==
    LET elems == Range(domains)
    IN  {o \in StringsUpTo(elems, Cardinality(elems)) :
            Len(o) = Cardinality(elems) /\ Range(o) = elems}

\* mutant: enumerate(xs) with its default start of 0
Ordinal_from_zero(i) == i - 1

\* enumerate(xs, start=1): the index given to the i-th element
Ordinal(i) == i

\* first loop: citation_sources[idx] = domains
AnalyzeSources ==
    /\ pc = "extracted" /\ pipeline = "domain"
    /\ citation_sources' =
          [i \in 1..Len(citation_refs) |-> Domains(citation_refs[i])]
    /\ cit_i' = 0
    /\ pc' = "group"
    /\ UNCHANGED <<pipeline, citation_refs, llm_available, groups, source_count,
                   printed, outcomes, extractVars, identVars>>

\* second loop, one citation: `for d in set(domains): domain_to_citations[d].append(cit_idx)`
GroupByDomain ==
    /\ pc = "group" /\ pipeline = "domain"
    /\ cit_i < Len(citation_sources)
    /\ \E order \in IterationOrders(citation_sources[cit_i + 1]) :
          groups' = AppendAll(groups, order, Ordinal(cit_i + 1))
    /\ cit_i' = cit_i + 1
    /\ UNCHANGED <<pc, pipeline, citation_refs, llm_available, citation_sources,
                   source_count, printed, outcomes, extractVars, identVars>>

\* `return citation_sources, domain_to_citations`
ReturnAnalysis ==
    /\ pc = "group" /\ pipeline = "domain"
    /\ cit_i = Len(citation_sources)
    /\ pc' = "report"
    /\ UNCHANGED <<pipeline, citation_refs, pipeVars, extractVars, identVars>>

\* len(domain_to_citations)
DomainCount(d) == Len(d)

\* the three printed sections, the last one the source count
DomainReport ==
    /\ pc = "report" /\ pipeline = "domain"
    /\ source_count' = DomainCount(groups)
    /\ printed' = printed \o <<"sources", "groups", "count">>
    /\ pc' = "done"
    /\ UNCHANGED <<pipeline, citation_refs, cit_i, llm_available, citation_sources,
                   groups, outcomes, extractVars, identVars>>

(***************************************************************************)
(* The semantic pipeline (citation_verifier_llm.py)                        *)
(***************************************************************************)
\* Page texts as " ".join(paragraph texts) gives them, before the final strip
PageTexts == {<<>>, <<" ">>, <<"t">>}

\* requests.get / raise_for_status raise, or the page is read
FetchOutcomes == {[ok |-> FALSE]} \cup {[ok |-> TRUE, text |-> t] : t \in PageTexts}

\* fetch_article_text(url): "" on any request failure, else the stripped text
fetch_article_text(fetch) == IF fetch.ok THEN Strip(fetch.text) ELSE <<>>

Alphabet == {"R", " ", "\n"}

\* what llm(prompt, max_length=50)[0]['generated_text'] does: raises or returns text
LlmOutcomes(answers) ==
    {[raised |-> TRUE]} \cup {[raised |-> FALSE, generated_text |-> a] : a \in answers}

PipelineAnswers ==
    StringsUpTo(Alphabet, MaxAnswer) \cup {NoneWord, <<"N", "o", "n", "e">>, <<"r">>}

\* mutant: the `if not text: return "none"` guard left out
identify_source_noguard(text, llm) ==
    IF llm.raised THEN NoneWord
    ELSE Lower(FirstLine(Strip(llm.generated_text)))

\* identify_source(text, llm), llm standing for the outcome of the one call it makes
identify_source(text, llm) ==
    IF text = <<>> THEN NoneWord
    ELSE IF llm.raised THEN NoneWord
    ELSE Lower(FirstLine(Strip(llm.generated_text)))

\* load_llm(): `pipeline is None` raises ImportError
LoadLlmRaises(available) == ~available

\* `llm = load_llm()` succeeded
LoadLlm ==
    /\ pc = "extracted" /\ pipeline = "semantic"
    /\ ~LoadLlmRaises(llm_available)
    /\ citation_sources' = <<>>
    /\ cit_i' = 0
    /\ pc' = "classify"
    /\ UNCHANGED <<pipeline, citation_refs, llm_available, groups, source_count,
                   printed, outcomes, extractVars, identVars>>

\* `except ImportError as e: print(str(e)); return`
LoadLlmFailed ==
    /\ pc = "extracted" /\ pipeline = "semantic"
    /\ LoadLlmRaises(llm_available)
    /\ printed' = Append(printed, "import_error")
    /\ pc' = "returned"
    /\ UNCHANGED <<pipeline, citation_refs, cit_i, llm_available, citation_sources,
                   groups, source_count, outcomes, extractVars, identVars>>

\* `if not citation_links: citation_sources.append("none"); continue`
ClassifyNoLinks ==
    /\ pc = "classify" /\ cit_i < Len(citation_refs)
    /\ citation_refs[cit_i + 1] = <<>>
    /\ citation_sources' = Append(citation_sources, NoneWord)
    /\ outcomes' = Append(outcomes, [kind |-> "no_links"])
    /\ cit_i' = cit_i + 1
    /\ UNCHANGED <<pc, pipeline, citation_refs, llm_available, groups, source_count,
                   printed, extractVars, identVars>>

\* url = citation_links[0]; text = fetch_article_text(url); source = identify_source(text, llm)
ClassifyCitation ==
    /\ pc = "classify" /\ cit_i < Len(citation_refs)
    /\ citation_refs[cit_i + 1] # <<>>
    /\ \E fetch \in FetchOutcomes, llm \in LlmOutcomes(PipelineAnswers) :
          LET text == fetch_article_text(fetch)
              source == identify_source(text, llm)
          IN  /\ citation_sources' = Append(citation_sources, source)
              /\ outcomes' = Append(outcomes,
                    IF ~fetch.ok THEN [kind |-> "fetch_failed"]
                    ELSE IF text = <<>> THEN [kind |-> "empty_text"]
                    ELSE IF llm.raised THEN [kind |-> "llm_raised"]
                    ELSE [kind |-> "classified"])
    /\ cit_i' = cit_i + 1
    /\ UNCHANGED <<pc, pipeline, citation_refs, llm_available, groups, source_count,
                   printed, extractVars, identVars>>

\* `for idx, src in enumerate(citation_sources, start=1): source_map.setdefault(src, []).append(idx)`
RECURSIVE GroupFrom(_, _, _)
GroupFrom(d, sources, i) ==
    IF i > Len(sources) THEN d
    ELSE GroupFrom(DictAppend(d, sources[i], Ordinal(i)), sources, i + 1)

GroupSources ==
    /\ pc = "classify" /\ cit_i = Len(citation_refs)
    /\ groups' = GroupFrom(<<>>, citation_sources, 1)
    /\ pc' = "report"
    /\ UNCHANGED <<pipeline, citation_refs, cit_i, llm_available, citation_sources,
                   source_count, printed, outcomes, extractVars, identVars>>

\* mutant: len(source_map), the sentinel counted like any source
UniqueCount_all(d) == Len(d)

\* unique = [s for s in source_map.keys() if s != "none"]; len(unique)
IsCounted(k) == k # NoneWord
UniqueCount(d) == Len(SelectSeq(Keys(d), IsCounted))

SemanticReport ==
    /\ pc = "report" /\ pipeline = "semantic"
    /\ source_count' = UniqueCount(groups)
    /\ printed' = printed \o <<"sources", "groups", "count">>
    /\ pc' = "done"
    /\ UNCHANGED <<pipeline, citation_refs, cit_i, llm_available, citation_sources,
                   groups, outcomes, extractVars, identVars>>

(***************************************************************************)
(* The pipelines from the extracted citation list on                       *)
(***************************************************************************)
DomainUrls == {UrlUpperA, UrlLowerA, UrlB}
SemanticUrls == {UrlB}

CitationLists(urls) == StringsUpTo(StringsUpTo(urls, MaxLinks), MaxCitations)

Init ==
    /\ pc = "extracted"
    /\ \/ /\ pipeline = "domain"
          /\ citation_refs \in CitationLists(DomainUrls)
          /\ llm_available = TRUE
       \/ /\ pipeline = "semantic"
          /\ citation_refs \in CitationLists(SemanticUrls)
          /\ llm_available \in BOOLEAN
    /\ document = <<>> /\ sup_i = 0 /\ used_fallback = FALSE
    /\ cit_i = 0 /\ citation_sources = <<>> /\ groups = <<>>
    /\ source_count = 0 /\ printed = <<>> /\ outcomes = <<>>
    /\ id_text = <<>> /\ id_result = [raised |-> TRUE] /\ id_key = <<>>

Next ==
    \/ AnalyzeSources
    \/ GroupByDomain
    \/ ReturnAnalysis
    \/ DomainReport
    \/ LoadLlm
    \/ LoadLlmFailed
    \/ ClassifyNoLinks
    \/ ClassifyCitation
    \/ GroupSources
    \/ SemanticReport

Spec == Init /\ [][Next]_vars

(***************************************************************************)
(* identify_source alone, over every answer up to MaxOut characters        *)
(***************************************************************************)
InitIdentify ==
    /\ pc = "identify"
    /\ id_text \in {fetch_article_text(f) : f \in FetchOutcomes}
    /\ id_result \in LlmOutcomes(StringsUpTo(Alphabet \cup {"r"}, MaxOut))
    /\ id_key = <<>>
    /\ pipeline = "semantic" /\ citation_refs = <<>>
    /\ document = <<>> /\ sup_i = 0 /\ used_fallback = FALSE
    /\ cit_i = 0 /\ llm_available = TRUE /\ citation_sources = <<>> /\ groups = <<>>
    /\ source_count = 0 /\ printed = <<>> /\ outcomes = <<>>

Identify ==
    /\ pc = "identify"
    /\ id_key' = identify_source(id_text, id_result)
    /\ pc' = "identified"
    /\ UNCHANGED <<pipeline, citation_refs, id_text, id_result, extractVars, pipeVars>>

NextIdentify == Identify

SpecIdentify == InitIdentify /\ [][NextIdentify]_vars

(***************************************************************************)
(* Vocabulary of the properties                                            *)
(***************************************************************************)
NumCitations == Len(citation_refs)

\* CitationSourceMap[ord]: the provenance keys citation ord touches
KeySet(ord) ==
    IF pipeline = "domain" THEN Range(citation_sources[ord]) ELSE {citation_sources[ord]}

\* the ordinals SourceGroup holds under key k (none when k is no key of it)
GroupOrdinals(k) == UNION {Range(groups[i].cites) : i \in {j \in DOMAIN groups : groups[j].key = k}}

AllGroupOrdinals == UNION {Range(groups[i].cites) : i \in DOMAIN groups}

AllKeys == Range(Keys(groups)) \cup UNION {KeySet(ord) : ord \in 1..NumCitations}

Aggregated == pc \in {"report", "done"}

HasAnchor(n) == n.anchor # HrefEmpty

\* the citation markers of a document: the <sup> holding a hyperlink with an href
Markers(doc) == SelectSeq(Sups(doc), HasAnchor)

IsDangling(doc, marker) ==
    IsFragmentRef(marker.anchor) /\ FindById(doc, marker.anchor.fragment) = <<>>

StrictlyIncreasing(s) == \A i \in 1..(Len(s) - 1) : s[i] < s[i + 1]

Uppercase == {"A", "N", "R"}

\* no newline, no uppercase letter, no leading or trailing whitespace
IsNormalizedKey(k) ==
    /\ "\n" \notin Range(k)
    /\ Range(k) \cap Uppercase = {}
    /\ Strip(k) = k

(***************************************************************************)
(* C1: in both pipelines, for every provenance key k the ordinals stored   *)
(* in SourceGroup[k] are exactly the ordinals whose citation has k among   *)
(* its keys: none added, none dropped.                                     *)
(***************************************************************************)
C1_GroupIsInversion ==
    Aggregated =>
        \A k \in AllKeys :
            GroupOrdinals(k) = {ord \in 1..NumCitations : k \in KeySet(ord)}

\* two citations share a domain and a second domain has a group of its own
C1_Witness ==
    /\ pc = "done" /\ pipeline = "domain"
    /\ Len(groups) >= 2
    /\ \E i \in DOMAIN groups : Len(groups[i].cites) >= 2

(***************************************************************************)
(* C2: extract_citation_links returns one citation per citation marker,    *)
(* in document order, so the ordinals are 1..N with N the number of        *)
(* markers; a marker whose '#id' names no element still yields a citation  *)
(* at its position, the empty link sequence.                               *)
(***************************************************************************)
C2_OneCitationPerMarker ==
    (pc = "extracted" /\ ~used_fallback) =>
        /\ Len(citation_refs) = Len(Markers(document))
        /\ \A i \in DOMAIN Markers(document) :
              IsDangling(document, Markers(document)[i]) =>
                  (i \in DOMAIN citation_refs /\ citation_refs[i] = <<>>)

(***************************************************************************)
(* C3: every URL in a citation returned by extract_citation_links has      *)
(* scheme http or https, whichever path produced it; a marker whose        *)
(* direct href has another scheme resolves to the empty sequence.          *)
(***************************************************************************)
C3_OnlyHttpSchemes ==
    pc = "extracted" =>
        \A i \in DOMAIN citation_refs : \A j \in DOMAIN citation_refs[i] :
            citation_refs[i][j].scheme \in {Http, Https}

(***************************************************************************)
(* C4 as claimed: after aggregation the union over all SourceGroup lists   *)
(* is exactly 1..N, also when some citation has an empty link list.        *)
(***************************************************************************)
C4_UnionIsAllOrdinals ==
    Aggregated => AllGroupOrdinals = 1..NumCitations

(***************************************************************************)
(* C4 as amended: after aggregation the union over all SourceGroup lists   *)
(* is exactly the set of ordinals of CitationSourceMap whose key set is    *)
(* not empty; in the semantic pipeline, where every citation has one key,  *)
(* that is 1..N.                                                           *)
(***************************************************************************)
C4_UnionIsKeyedOrdinals ==
    Aggregated =>
        /\ AllGroupOrdinals = {ord \in 1..NumCitations : KeySet(ord) # {}}
        /\ pipeline = "semantic" => AllGroupOrdinals = 1..NumCitations

\* the domain pipeline grouped a list holding a citation without links
C4_Witness ==
    /\ pc = "done" /\ pipeline = "domain"
    /\ groups # <<>>
    /\ \E i \in DOMAIN citation_refs : citation_refs[i] = <<>>

(***************************************************************************)
(* C5: with the classification backend unavailable the semantic run does   *)
(* not stop: every citation is classified "none", the report is produced,  *)
(* and the missing capability is reported once.                            *)
(***************************************************************************)
C5_DegradesWithoutBackend ==
    (pipeline = "semantic" /\ ~llm_available /\ pc \in {"returned", "done"}) =>
        /\ pc = "done"
        /\ citation_sources = [i \in 1..NumCitations |-> NoneWord]
        /\ "count" \in Range(printed)
        /\ Cardinality({i \in DOMAIN printed : printed[i] = "import_error"}) = 1

(***************************************************************************)
(* C6: the classification loop handles the citations in ordinal order and  *)
(* ends with exactly N keys, the i-th for citation i; a citation without   *)
(* links, whose fetch failed, whose text is empty or whose classification  *)
(* raised gets "none", and the citations after it are still classified.    *)
(***************************************************************************)
C6_FailuresAreIsolated ==
    (pipeline = "semantic" /\ pc \in {"classify", "report", "done"}) =>
        /\ Len(citation_sources) = cit_i
        /\ Len(outcomes) = cit_i
        /\ cit_i <= NumCitations
        /\ pc # "classify" => cit_i = NumCitations
        /\ \A i \in 1..cit_i :
              /\ (outcomes[i].kind = "no_links") <=> (citation_refs[i] = <<>>)
              /\ outcomes[i].kind \in {"no_links", "fetch_failed", "empty_text", "llm_raised"}
                    => citation_sources[i] = NoneWord

\* the first citation's classification raised and the second was still classified
C6_Witness ==
    /\ pc = "done" /\ pipeline = "semantic"
    /\ NumCitations = 2
    /\ outcomes[1].kind = "llm_raised"
    /\ outcomes[2].kind = "classified"
    /\ citation_sources[2] = <<"r">>

(***************************************************************************)
(* C7: the reported count is the number of distinct provenance keys: in    *)
(* the domain pipeline the number of distinct domains among all links, in  *)
(* the semantic pipeline the number of distinct keys other than "none".    *)
(***************************************************************************)
C7_CountIsDistinctKeys ==
    pc = "done" =>
        source_count =
            IF pipeline = "domain"
            THEN Cardinality({get_domain(link) :
                                link \in UNION {Range(citation_refs[i]) : i \in 1..NumCitations}})
            ELSE Cardinality(Range(citation_sources) \ {NoneWord})

\* a "none" citation next to a classified one: the count is one
C7_Witness ==
    /\ pc = "done" /\ pipeline = "semantic"
    /\ NoneWord \in Range(citation_sources)
    /\ source_count = 1

(***************************************************************************)
(* C8: the semantic extract_citation_links uses the fallback exactly when  *)
(* the document has no citation marker; with at least one marker the       *)
(* result holds only citations resolved from markers.                      *)
(***************************************************************************)
C8_FallbackIffNoMarkers ==
    (pipeline = "semantic" /\ pc = "extracted") =>
        (used_fallback <=> Markers(document) = <<>>)

(***************************************************************************)
(* C9: for a non-empty text and any returned answer, the key produced by   *)
(* identify_source holds no newline, no uppercase letter and no leading    *)
(* or trailing whitespace.                                                 *)
(***************************************************************************)
C9_KeyIsNormalized ==
    (pc = "identified" /\ id_text # <<>> /\ ~id_result.raised) =>
        IsNormalizedKey(id_key)

(***************************************************************************)
(* C10: in SourceGroup every (key, ordinal) pair occurs once: the keys are *)
(* distinct, each list is strictly increasing, and the keys are ordered by *)
(* the smallest ordinal whose citation holds them.                         *)
(***************************************************************************)
C10_GroupsAreOrdered ==
    Aggregated =>
        /\ \A i, j \in DOMAIN groups : groups[i].key = groups[j].key => i = j
        /\ \A i \in DOMAIN groups :
              groups[i].cites # <<>> /\ StrictlyIncreasing(groups[i].cites)
        /\ \A i, j \in DOMAIN groups :
              i < j => groups[i].cites[1] <= groups[j].cites[1]

\* a citation with two links of one domain, and a later key first seen after it
C10_Witness ==
    /\ pc = "done" /\ pipeline = "domain"
    /\ \E i \in DOMAIN citation_sources :
          Len(citation_sources[i]) > Cardinality(Range(citation_sources[i]))
    /\ Len(groups) = 2
    /\ groups[1].cites[1] < groups[2].cites[1]

====
